---- MODULE Spec2Model ----
(***************************************************************************)
(* Model of controllers/mover/syncthing/syncthing.go (VolSync).            *)
(*                                                                         *)
(*   Spec      the agent handle under reconciliation:                      *)
(*             updateSyncthingDevices and syncthingNeedsReconfigure acting *)
(*             on Configuration.Devices, in any order, with any peer list  *)
(*   SpecCmp   syncthingNeedsReconfigure as a function of its inputs, on   *)
(*             two device lists that differ only in introduced devices     *)
(*   SpecAddr  asTCPAddress applied once and twice to an address           *)
(*   SpecRand  GenerateRandomString over the bytes of the entropy source   *)
(*                                                                         *)
(* A protocol.DeviceID is modelled by a token ("id:A"); its text forms are *)
(* strings.  Go strings that the code inspects character by character are  *)
(* sequences of one-character strings, and a generated string is the       *)
(* sequence of its character codes.                                        *)
(***************************************************************************)
EXTENDS Integers, Sequences, FiniteSets

VARIABLES
    devices,        \* syncthing.Configuration.Devices
    folderDevices,  \* the devices every folder is shared with (ShareFoldersWithDevices)
    shareCalled,    \* the last operation invoked ShareFoldersWithDevices
    op,             \* the last operation: "init", "update" or "compare"
    applied,        \* the peer list of the last update that returned nil
    err,            \* the error the last updateSyncthingDevices returned
    position,       \* the peer at which the last update's loop stopped (0: never entered)
    needs,          \* the result of the last syncthingNeedsReconfigure
    samePeers,      \* the last operation was given the peer list that the
                    \* operation right before it, an update, had just applied
    nodeList,       \* SpecCmp: the desired peer list compared
    altDevices,     \* SpecCmp: a second device list
    altNeeds,       \* SpecCmp: the result of the comparison on altDevices
    address,        \* asTCPAddress: the input
    addrPc,         \* asTCPAddress: "in", "once" (applied), "twice" (applied to its result)
    once,           \* asTCPAddress(address)
    twice,          \* asTCPAddress(asTCPAddress(address))
    length,         \* GenerateRandomString: the length asked for
    entropy,        \* the entropy source: [ok |-> rand.Read succeeds, bytes |-> the bytes it holds]
    randPc,         \* GenerateRandomString: "in" or "done"
    randStr,        \* the string returned, as a sequence of character codes
    randErr         \* GenerateRandomString returned an error

agentVars == <<devices, folderDevices, shareCalled, op, applied, err, position,
               needs, samePeers>>
cmpVars == <<nodeList, altDevices, altNeeds>>
addrVars == <<address, addrPc, once, twice>>
randVars == <<length, entropy, randPc, randStr, randErr>>
vars == <<agentVars, cmpVars, addrVars, randVars>>

-----------------------------------------------------------------------------
(* Bounds *)

MaxPeers == 2        \* longest desired peer list
MaxDevices == 5      \* longest device list an update may build
MaxOtherDevices == 2 \* most devices beside self in a device list drawn as input
MaxAddrLen == 5      \* longest address given to asTCPAddress
MaxRandLen == 2      \* longest random string over the boundary bytes

-----------------------------------------------------------------------------
(* protocol.DeviceID and its text forms *)

EmptyDeviceID == "id:empty"
SelfDeviceID == "id:self"

\* DeviceID.GoString(): the canonical text of an identifier, "" for the
\* empty (zero) identifier.
GoString(id) ==
    CASE id = "id:self" -> "MYID"
      [] id = "id:A" -> "PEERA"
      [] id = "id:B" -> "PEERB"
      [] OTHER -> ""

\* syncthing.MyID()
MyID == GoString(SelfDeviceID)

\* strings.ToUpper, on the identifier texts of the model
ToUpper(s) ==
    CASE s = "myid" -> "MYID"
      [] s = "peera" -> "PEERA"
      [] OTHER -> s

\* protocol.DeviceIDFromString: the text is normalised (upper-cased) before
\* it is decoded, the empty text decodes to the empty identifier, and any
\* other text is an error.
DeviceIDFromString(s) ==
    LET u == ToUpper(s) IN
    CASE u = "" -> [ok |-> TRUE, id |-> EmptyDeviceID]
      [] u = "MYID" -> [ok |-> TRUE, id |-> "id:self"]
      [] u = "PEERA" -> [ok |-> TRUE, id |-> "id:A"]
      [] u = "PEERB" -> [ok |-> TRUE, id |-> "id:B"]
      [] OTHER -> [ok |-> FALSE, id |-> EmptyDeviceID]

-----------------------------------------------------------------------------
(* Inputs *)

\* v1alpha1.SyncthingPeer values the custom resource may hold
PeerPool ==
    { [ID |-> "PEERA", Address |-> "10.0.0.2:22000", Introducer |-> FALSE],
      [ID |-> "peera", Address |-> "10.0.0.9:22000", Introducer |-> TRUE],
      [ID |-> "MYID", Address |-> "10.0.0.1:22000", Introducer |-> FALSE],
      [ID |-> "bogus", Address |-> "10.0.0.4:22000", Introducer |-> FALSE] }

SeqsUpTo(S, n) == UNION { [1..k -> S] : k \in 0..n }

PeerLists == SeqsUpTo(PeerPool, MaxPeers)

\* the agent's own entry in its configuration
SelfDevice ==
    [DeviceID |-> SelfDeviceID, Addresses |-> <<"dynamic">>,
     Introducer |-> FALSE, IntroducedBy |-> EmptyDeviceID]

\* config.DeviceConfiguration values the agent may hold for another device:
\* directly configured (IntroducedBy empty) or introduced by a device
OtherDevices ==
    { [DeviceID |-> "id:A", Addresses |-> <<"tcp://10.0.0.7:22000">>,
       Introducer |-> TRUE, IntroducedBy |-> EmptyDeviceID],
      [DeviceID |-> "id:A", Addresses |-> <<"tcp://10.0.0.7:22000">>,
       Introducer |-> FALSE, IntroducedBy |-> "id:B"],
      [DeviceID |-> "id:B", Addresses |-> <<"tcp://10.0.0.8:22000">>,
       Introducer |-> FALSE, IntroducedBy |-> EmptyDeviceID],
      [DeviceID |-> "id:B", Addresses |-> <<"dynamic">>,
       Introducer |-> TRUE, IntroducedBy |-> "id:A"] }

IsIntroduced(d) == GoString(d.IntroducedBy) # ""

NoDuplicates(devs) ==
    \A i, j \in 1..Len(devs) : i # j => devs[i].DeviceID # devs[j].DeviceID

\* the device lists of an agent before any update: self, then the other
\* devices, no identifier twice
InitDeviceLists ==
    { <<SelfDevice>> \o rest : rest \in
        { r \in SeqsUpTo(OtherDevices, MaxOtherDevices) : NoDuplicates(r) } }

-----------------------------------------------------------------------------
(* updateSyncthingDevices *)

\* lines 39-43: myself and the introduced devices are kept, in order
CarryForward(devs) ==
    SelectSeq(devs, LAMBDA d : GoString(d.DeviceID) = MyID \/ IsIntroduced(d))

\* DeviceToAdd without the copy of the peer's Introducer flag
DeviceToAddNoIntroducer(deviceID, peer) ==
    [DeviceID |-> deviceID, Addresses |-> <<peer.Address>>,
     Introducer |-> FALSE, IntroducedBy |-> EmptyDeviceID]

\* lines 50-54: the device built for a peer; IntroducedBy keeps its zero value
DeviceToAdd(deviceID, peer) ==
    [DeviceID |-> deviceID, Addresses |-> <<peer.Address>>,
     Introducer |-> peer.Introducer, IntroducedBy |-> EmptyDeviceID]

\* lines 45-56: the loop over peerList from position i, newDevices so far
RECURSIVE AddPeers(_, _, _)
AddPeers(peers, i, newDevices) ==
    IF i > Len(peers) THEN [err |-> "none", at |-> i, newDevices |-> newDevices]
    ELSE LET parsed == DeviceIDFromString(peers[i].ID) IN
         IF ~parsed.ok
         THEN [err |-> "invalid device ID", at |-> i, newDevices |-> newDevices]
         ELSE AddPeers(peers, i + 1,
                       Append(newDevices, DeviceToAdd(parsed.id, peers[i])))


\* UpdateResult appending to Configuration.Devices as it goes: a parse
\* error leaves the devices built so far in place
UpdateResultInPlace(peers, isNil, devs) ==
    IF isNil
    THEN [err |-> "syncthing cannot be nil", at |-> 0, devices |-> devs, shared |-> FALSE]
    ELSE LET r == AddPeers(peers, 1, CarryForward(devs)) IN
         [err |-> r.err, at |-> r.at, devices |-> r.newDevices, shared |-> r.err = "none"]

\* lines 32-60, what the call leaves behind: the error returned, the peer at
\* which the loop stopped, Configuration.Devices, and whether
\* ShareFoldersWithDevices was called (with Configuration.Devices)
UpdateResult(peers, isNil, devs) ==
    IF isNil
    THEN [err |-> "syncthing cannot be nil", at |-> 0, devices |-> devs, shared |-> FALSE]
    ELSE LET r == AddPeers(peers, 1, CarryForward(devs)) IN
         IF r.err # "none"
         THEN [err |-> r.err, at |-> r.at, devices |-> devs, shared |-> FALSE]
         ELSE [err |-> "none", at |-> r.at, devices |-> r.newDevices, shared |-> TRUE]

-----------------------------------------------------------------------------
(* syncthingNeedsReconfigure *)

\* m[k] = v on a Go map held as a function
MapSet(m, k, v) == [x \in DOMAIN m \cup {k} |-> IF x = k THEN v ELSE m[x]]

\* lines 69-75 and 87-93: the map holding only the self node
SelfMap == MapSet(<<>>, MyID, [ID |-> MyID, Address |-> "", Introducer |-> FALSE])

\* lines 78-84: the desired peers, self skipped, the last of a repeated ID kept
RECURSIVE DesiredMap(_, _, _)
DesiredMap(peers, i, m) ==
    IF i > Len(peers) THEN m
    ELSE IF peers[i].ID = MyID THEN DesiredMap(peers, i + 1, m)
    ELSE DesiredMap(peers, i + 1, MapSet(m, peers[i].ID, peers[i]))

\* SkipDevice ignoring self only
SkipDeviceSelfOnly(d) == GoString(d.DeviceID) = MyID

\* line 97: self and introduced devices are ignored
SkipDevice(d) == GoString(d.DeviceID) = MyID \/ IsIntroduced(d)

\* lines 95-105: the current devices; Addresses[0] is read of every device kept
RECURSIVE CurrentMap(_, _, _)
CurrentMap(devs, i, m) ==
    IF i > Len(devs) THEN m
    ELSE IF SkipDevice(devs[i]) THEN CurrentMap(devs, i + 1, m)
    ELSE CurrentMap(devs, i + 1,
                    MapSet(m, GoString(devs[i].DeviceID),
                           [ID |-> GoString(devs[i].DeviceID),
                            Address |-> Head(devs[i].Addresses),
                            Introducer |-> FALSE]))

\* Diverges without the second loop: only missing desired devices count
DivergesOneWay(newDevices, currentDevs) ==
    \E k \in DOMAIN newDevices : newDevices[k].ID \notin DOMAIN currentDevs

\* lines 108-118: either map holds a device whose ID is no key of the other
Diverges(newDevices, currentDevs) ==
    \/ \E k \in DOMAIN newDevices : newDevices[k].ID \notin DOMAIN currentDevs
    \/ \E k \in DOMAIN currentDevs : currentDevs[k].ID \notin DOMAIN newDevices

\* lines 64-119
NeedsReconfigure(peers, devs) ==
    Diverges(DesiredMap(peers, 1, SelfMap), CurrentMap(devs, 1, SelfMap))

-----------------------------------------------------------------------------
(* asTCPAddress *)

\* \w of the pattern: [0-9A-Za-z_], on the characters of the model
IsWord(c) == c \in {"t", "c", "p", "q", "1", "_"}

\* \s of the pattern: [\t\n\f\r ], on the characters of the model
IsSpace(c) == c \in {" ", "\t"}

\* line 164: ^(\w+:\/\/)[^\s]+$ matches the whole string: k >= 1 word
\* characters, "://", then one or more characters, none of them white space
MatchesURIPattern(s) ==
    \E k \in 1..Len(s) :
        /\ \A i \in 1..k : IsWord(s[i])
        /\ Len(s) >= k + 4
        /\ s[k + 1] = ":" /\ s[k + 2] = "/" /\ s[k + 3] = "/"
        /\ \A i \in (k + 4)..Len(s) : ~IsSpace(s[i])

TCPPrefix == <<"t", "c", "p", ":", "/", "/">>

\* lines 162-170
asTCPAddress(a) == IF MatchesURIPattern(a) THEN a ELSE TCPPrefix \o a

-----------------------------------------------------------------------------
(* GenerateRandomBytes, GenerateRandomString *)

ByteRange == 256
lowerBound == 33
upperBound == 126

\* acceptableRange without the + 1
acceptableRangeExclusive == (upperBound - lowerBound) % ByteRange

\* line 146, in byte arithmetic
acceptableRange == (upperBound - lowerBound + 1) % ByteRange

\* line 152, in byte arithmetic
AcceptableByte(b) == ((b % acceptableRange) + lowerBound) % ByteRange

\* lines 150-154: the loop from position i, acceptableBytes so far
RECURSIVE MapBytes(_, _, _)
MapBytes(b, i, acceptableBytes) ==
    IF i > Len(b) THEN acceptableBytes
    ELSE MapBytes(b, i + 1, Append(acceptableBytes, AcceptableByte(b[i])))

\* lines 122-130: a slice of n bytes filled by rand.Read, or its error
GenerateRandomBytes(n, source) ==
    IF source.ok THEN [err |-> FALSE, b |-> SubSeq(source.bytes, 1, n)]
    ELSE [err |-> TRUE, b |-> <<>>]

\* lines 135-156
GenerateRandomString(n, source) ==
    LET r == GenerateRandomBytes(n, source) IN
    IF r.err THEN [err |-> TRUE, str |-> <<>>]
    ELSE [err |-> FALSE, str |-> MapBytes(r.b, 1, <<>>)]

-----------------------------------------------------------------------------
(* What each specification leaves alone *)

IdleAgent ==
    /\ devices = <<SelfDevice>>
    /\ folderDevices = <<>>
    /\ shareCalled = FALSE
    /\ op = "idle"
    /\ applied = <<>>
    /\ err = "none"
    /\ position = 0
    /\ needs = FALSE
    /\ samePeers = FALSE

IdleCmp == nodeList = <<>> /\ altDevices = <<>> /\ altNeeds = FALSE

IdleAddr == address = <<>> /\ addrPc = "idle" /\ once = <<>> /\ twice = <<>>

IdleRand ==
    /\ length = 0
    /\ entropy = [ok |-> TRUE, bytes |-> <<>>]
    /\ randPc = "idle"
    /\ randStr = <<>>
    /\ randErr = FALSE

-----------------------------------------------------------------------------
(* Spec: the agent under reconciliation *)

Init ==
    /\ devices \in InitDeviceLists
    /\ folderDevices = <<>>
    /\ shareCalled = FALSE
    /\ op = "init"
    /\ applied = <<>>
    /\ err = "none"
    /\ position = 0
    /\ needs = FALSE
    /\ samePeers = FALSE
    /\ IdleCmp /\ IdleAddr /\ IdleRand

\* the operation before this one was an update that applied this peer list
JustApplied(peers) == op = "update" /\ err = "none" /\ peers = applied

UpdateSyncthingDevices(peers, isNil) ==
    LET r == UpdateResult(peers, isNil, devices) IN
    /\ Len(r.devices) <= MaxDevices
    /\ devices' = r.devices
    /\ folderDevices' = IF r.shared THEN r.devices ELSE folderDevices
    /\ shareCalled' = r.shared
    /\ err' = r.err
    /\ position' = r.at
    /\ applied' = IF r.err = "none" THEN peers ELSE applied
    /\ samePeers' = JustApplied(peers)
    /\ op' = "update"
    /\ UNCHANGED <<needs, cmpVars, addrVars, randVars>>

SyncthingNeedsReconfigure(peers) ==
    /\ needs' = NeedsReconfigure(peers, devices)
    /\ samePeers' = JustApplied(peers)
    /\ op' = "compare"
    /\ shareCalled' = FALSE
    /\ UNCHANGED <<devices, folderDevices, applied, err, position,
                   cmpVars, addrVars, randVars>>

Next ==
    \/ \E peers \in PeerLists, isNil \in BOOLEAN : UpdateSyncthingDevices(peers, isNil)
    \/ \E peers \in PeerLists : SyncthingNeedsReconfigure(peers)

Spec == Init /\ [][Next]_vars

-----------------------------------------------------------------------------
(* SpecCmp: the comparison on two device lists with the same devices that  *)
(* are neither introduced nor self                                         *)

Managed(devs) == SelectSeq(devs, LAMBDA d : ~IsIntroduced(d))

CmpDeviceLists ==
    { <<SelfDevice>> \o rest : rest \in SeqsUpTo(OtherDevices, MaxOtherDevices) }

InitCmp ==
    /\ devices \in CmpDeviceLists
    /\ altDevices \in { a \in CmpDeviceLists : Managed(a) = Managed(devices) }
    /\ nodeList \in PeerLists
    /\ altNeeds = FALSE
    /\ needs = FALSE
    /\ op = "init"
    /\ folderDevices = <<>>
    /\ shareCalled = FALSE
    /\ applied = <<>>
    /\ err = "none"
    /\ position = 0
    /\ samePeers = FALSE
    /\ IdleAddr /\ IdleRand

CompareBoth ==
    /\ op = "init"
    /\ needs' = NeedsReconfigure(nodeList, devices)
    /\ altNeeds' = NeedsReconfigure(nodeList, altDevices)
    /\ op' = "compare"
    /\ UNCHANGED <<devices, folderDevices, shareCalled, applied, err, position,
                   samePeers, nodeList, altDevices, addrVars, randVars>>

NextCmp == CompareBoth

SpecCmp == InitCmp /\ [][NextCmp]_vars

-----------------------------------------------------------------------------
(* SpecAddr: asTCPAddress and asTCPAddress of its result *)

AddrChars == {"q", ":", "/", " ", "."}

Addresses == SeqsUpTo(AddrChars, MaxAddrLen)

InitAddr ==
    /\ address \in Addresses
    /\ addrPc = "in"
    /\ once = <<>>
    /\ twice = <<>>
    /\ IdleAgent /\ IdleCmp /\ IdleRand

ApplyOnce ==
    /\ addrPc = "in"
    /\ once' = asTCPAddress(address)
    /\ addrPc' = "once"
    /\ UNCHANGED <<address, twice, agentVars, cmpVars, randVars>>

ApplyTwice ==
    /\ addrPc = "once"
    /\ twice' = asTCPAddress(once)
    /\ addrPc' = "twice"
    /\ UNCHANGED <<address, once, agentVars, cmpVars, randVars>>

NextAddr == ApplyOnce \/ ApplyTwice

SpecAddr == InitAddr /\ [][NextAddr]_vars

-----------------------------------------------------------------------------
(* SpecRand: GenerateRandomString *)

\* the bytes at which b % 94 wraps, and the ends of the byte range
BoundaryBytes == {0, 93, 94, 187, 188, 255}

\* every single byte, and every sequence of boundary bytes
ByteStrings ==
    { <<b>> : b \in 0..(ByteRange - 1) } \cup SeqsUpTo(BoundaryBytes, MaxRandLen)

InitRand ==
    /\ \E bs \in ByteStrings, ok \in BOOLEAN :
          /\ length \in 0..Len(bs)
          /\ entropy = [ok |-> ok, bytes |-> bs]
    /\ randPc = "in"
    /\ randStr = <<>>
    /\ randErr = FALSE
    /\ IdleAgent /\ IdleCmp /\ IdleAddr

Generate ==
    /\ randPc = "in"
    /\ LET r == GenerateRandomString(length, entropy) IN
          /\ randStr' = r.str
          /\ randErr' = r.err
    /\ randPc' = "done"
    /\ UNCHANGED <<length, entropy, agentVars, cmpVars, addrVars>>

NextRand == Generate

SpecRand == InitRand /\ [][NextRand]_vars

-----------------------------------------------------------------------------
(* Claims *)

Indices(seq) == 1..Len(seq)
Range(seq) == { seq[i] : i \in Indices(seq) }
Count(seq, r) == Cardinality({ i \in Indices(seq) : seq[i] = r })

\* the identifiers the desired peer list names, self excluded
DesiredIDs(peers) == { peers[i].ID : i \in Indices(peers) } \ {MyID}

\* the identifiers of the devices that are neither self nor introduced
ManagedIDs(devs) ==
    { GoString(devs[i].DeviceID) :
        i \in { j \in Indices(devs) : /\ GoString(devs[j].DeviceID) # MyID
                                      /\ GoString(devs[j].IntroducedBy) = "" } }

\* C1: syncthingNeedsReconfigure returns true exactly when the set of desired
\* peer identifiers (self excluded) differs from the set of identifiers of
\* the current devices that are neither self nor introduced; addresses and
\* introducer flags play no part.
C1_NeedsIffIdentifierSetsDiffer ==
    op = "compare" => (needs <=> DesiredIDs(nodeList) # ManagedIDs(devices))

\* C1 witness: the comparison returned false on a device whose address and
\* introducer flag both differ from those of the peer naming it.
C1_Witness ==
    /\ op = "compare" /\ ~needs
    /\ \E i \in Indices(nodeList), j \in Indices(devices) :
          /\ nodeList[i].ID = GoString(devices[j].DeviceID)
          /\ ~IsIntroduced(devices[j])
          /\ devices[j].Addresses # <<nodeList[i].Address>>
          /\ devices[j].Introducer # nodeList[i].Introducer

\* C2: an update that returns an error (nil handle, or an identifier that
\* does not parse, at any position) leaves Configuration.Devices as it was
\* and does not call ShareFoldersWithDevices.
C2_ErrorLeavesDevicesUntouched ==
    [][(op' = "update" /\ err' # "none")
        => (devices' = devices /\ ~shareCalled' /\ folderDevices' = folderDevices)]_vars

\* C2 witness: an update failed at its second peer, after the first had
\* parsed, on an agent holding devices beside self.
C2_Witness ==
    /\ op = "update" /\ err = "invalid device ID" /\ position = 2
    /\ ~shareCalled
    /\ Len(devices) > 1

\* the device the claim describes for a desired peer
DescribedDevice(peer) ==
    [DeviceID |-> DeviceIDFromString(peer.ID).id, Addresses |-> <<peer.Address>>,
     Introducer |-> peer.Introducer, IntroducedBy |-> EmptyDeviceID]

IsSelfOrIntroduced(d) == d.DeviceID = SelfDeviceID \/ d.IntroducedBy # EmptyDeviceID

\* new holds each device as often as old held it as self or introduced plus
\* as often as peers describe it, and nothing else
ExactlyKeptAndBuilt(old, peers, new) ==
    LET described == { DescribedDevice(peers[i]) : i \in Indices(peers) } IN
    \A r \in Range(new) \cup Range(old) \cup described :
        Count(new, r) = (IF IsSelfOrIntroduced(r) THEN Count(old, r) ELSE 0)
                        + Cardinality({ i \in Indices(peers) : DescribedDevice(peers[i]) = r })

\* C3: after a successful update the device list holds exactly self, every
\* previously introduced device unchanged, and one newly built device per
\* desired peer (its address alone, its introducer flag, introduced-by empty).
C3_ExactlyKeptAndBuilt ==
    [][(op' = "update" /\ err' = "none")
        => ExactlyKeptAndBuilt(devices, applied', devices')]_vars

\* C3 witness: a successful update of two peers, one of them an introducer,
\* kept an introduced device and built the introducer's device.
C3_Witness ==
    /\ op = "update" /\ err = "none" /\ Len(applied) = 2
    /\ \E j \in Indices(devices) : IsIntroduced(devices[j])
    /\ \E i \in Indices(applied), j \in Indices(devices) :
          /\ applied[i].Introducer
          /\ devices[j] = DescribedDevice(applied[i])

\* C4: the device list never holds two entries with the same identifier.
C4_NoDuplicateIdentifiers == NoDuplicates(devices)

\* C5: the comparison returns the same result on two device lists that
\* differ only in devices whose introduced-by is not empty.
C5_IntroducedDevicesIgnored == op = "compare" => needs = altNeeds

\* C5 witness: the comparison returned true for a desired peer that one
\* device list holds only as an introduced device and the other not at all.
C5_Witness ==
    /\ op = "compare" /\ needs /\ altNeeds
    /\ \E j \in Indices(devices) :
          /\ IsIntroduced(devices[j])
          /\ GoString(devices[j].DeviceID) \in DesiredIDs(nodeList)
          /\ \A k \in Indices(altDevices) : altDevices[k].DeviceID # devices[j].DeviceID

\* a URI scheme prefix: one or more word characters, then "://"
HasSchemePrefix(s) ==
    \E k \in 1..Len(s) :
        /\ \A i \in 1..k : IsWord(s[i])
        /\ Len(s) >= k + 3
        /\ s[k + 1] = ":" /\ s[k + 2] = "/" /\ s[k + 3] = "/"

\* C6: asTCPAddress is idempotent: applied to its own result it returns
\* that result.
C6_Idempotent == addrPc = "twice" => twice = once

\* C7: asTCPAddress returns its input unchanged whenever the input begins
\* with a URI scheme prefix, and "tcp://" followed by the input otherwise.
C7_UnchangedIffSchemePrefix ==
    addrPc \in {"once", "twice"}
        => once = (IF HasSchemePrefix(address) THEN address ELSE TCPPrefix \o address)

\* C8: when the entropy source returns its bytes, GenerateRandomString(n)
\* returns n characters, each with a code in 33..126 equal to
\* (byte % 94) + 33 with no wrap-around at 8 bits.
C8_PrintableOfLengthN ==
    (randPc = "done" /\ ~randErr)
        => /\ Len(randStr) = length
           /\ \A i \in 1..length :
                 /\ randStr[i] \in 33..126
                 /\ randStr[i] = (entropy.bytes[i] % 94) + 33

\* C8 witness: a string of two characters was generated from the largest
\* byte and from a byte at which the remainder wraps.
C8_Witness ==
    /\ randPc = "done" /\ ~randErr /\ length = 2
    /\ entropy.bytes = <<255, 94>>
    /\ randStr = <<100, 33>>

\* C8 witness of the remaining case: the entropy source failed and no
\* string was returned.
C8_SourceFailed == randPc = "done" /\ randErr /\ length > 0 /\ randStr = <<>>

\* C9: the comparison made right after a successful update, with the same
\* peer list, returns false.
C9_ConvergesInOneStep == (op = "compare" /\ samePeers) => ~needs

\* C10: a successful update with the peer list that the update right before
\* it applied leaves the device list as it is.
C10_UpdateIdempotent ==
    [][(op' = "update" /\ err' = "none" /\ samePeers') => devices' = devices]_vars

====
